---- MODULE Spec2Model ----
(***************************************************************************)
(* A model of the text-chunking pipeline of "Data Cleaning/chunk_jsonl.py": *)
(* the normalizer (clean_boilerplate), the token windower                  *)
(* (sliding_windows), the chunk assembler (chunk_text_no_truncation,       *)
(* process_record) and the file / checkpoint driver (process_single_file,  *)
(* main); and of chunk_text of "Data Cleaning/02_chunk_jsonl.py".          *)
(*                                                                         *)
(* The specifications of the module:                                       *)
(*   SpecWindow  the generator sliding_windows, stepped one resumption at  *)
(*               a time, over every small (n, window, overlap);            *)
(*   SpecClean   clean_boilerplate applied to a raw text and then to its   *)
(*               own result;                                               *)
(*   SpecSimple  the generator chunk_text of 02_chunk_jsonl.py;            *)
(*   Spec        main over one input file, with interrupts                 *)
(*               (KeyboardInterrupt) and re-runs on the same files;        *)
(*   SpecKill    main over one input file, the process killed at any       *)
(*               moment, a checkpoint write included, and run again;       *)
(*   SpecPar     main over two input files, sequential or parallel;        *)
(*   SpecMain    main over two input files, sequential or parallel,        *)
(*               with failing file operations.                             *)
(***************************************************************************)
EXTENDS Integers, Sequences, FiniteSets, TLC

VARIABLES
    \* ---- the environment of a run of main ----
    jsonl_files,   \* the input files found by main (file ids)
    input,         \* input[f]: the lines of input file f
    config,        \* ChunkingConfig: ALLOWED_TOKENS, OVERLAP, MIN_TOKENS_PER_CHUNK
    growth,        \* the tokenizer: tokens a leading continuation piece gains on decode
    cpu_count,     \* multiprocessing.cpu_count()
    faults,        \* file operations that may still fail
    \* ---- the file system ----
    outFile,       \* outFile at a path: the ChunkRecords of <stem>_chunks.jsonl
    ckptFile,      \* ckptFile at a path: <stem>_checkpoint.txt, [exists, hashes]
    \* ---- process_single_file(f) ----
    pc,            \* pc[f]: "pending", "reading", "completed", "failed", "raised",
                   \*        "interrupted", "killed"
    seen_hashes,   \* seen_hashes[f]
    kept,          \* kept[f]
    skipped,       \* skipped[f]
    line_num,      \* line_num[f]: lines of f read so far
    \* ---- main ----
    mainPc,        \* "running", "done", "crashed", "interrupted"
    total_kept,
    total_skipped,
    runs,          \* invocations of main so far, this one included
    \* ---- fixed when process_single_file(f) starts ----
    processed_hashes, \* processed_hashes[f]: the hashes loaded from the checkpoint
    outAtStart,    \* outAtStart[f]: records in outFile[out_path(f)] when this run opened it
    ckptAtStart,   \* ckptAtStart[f]: whether this run loaded a checkpoint file
    \* ---- sliding_windows(token_ids, window, overlap) ----
    wpc,        \* position in the generator: "start", "loop", "yielded", "done", "raised"
    n,          \* len(token_ids)
    window,     \* parameter window
    overlap,    \* parameter overlap
    i,          \* local i
    j,          \* local j
    slices,     \* the slices yielded so far, each <<i, j>> for token_ids[i:j]
    \* ---- clean_boilerplate(text), applied to a text and to its own result ----
    cpc,           \* "input", "once", "twice"
    raw_text,      \* the text
    cleaned_once,  \* clean_boilerplate(text)
    cleaned_twice, \* clean_boilerplate(clean_boilerplate(text))
    \* ---- chunk_text(text, chunk_tokens, overlap) of 02_chunk_jsonl.py ----
    ct_pc,         \* position in the generator: "start", "loop", "yielded", "done"
    ct_n,          \* len(tokens)
    ct_chunk_tokens, \* parameter chunk_tokens
    ct_overlap,    \* parameter overlap
    ct_i,          \* local i
    ct_j,          \* local j
    ct_chunk       \* the chunk yielded last, <<i, j>> for tokens[i:j]

wvars == <<wpc, n, window, overlap, i, j, slices>>

envvars == <<jsonl_files, input, config, growth, cpu_count>>
fsvars == <<outFile, ckptFile>>
pvars == <<pc, seen_hashes, kept, skipped, line_num>>
mvars == <<mainPc, total_kept, total_skipped, runs>>
hvars == <<processed_hashes, outAtStart, ckptAtStart>>
dvars == <<envvars, faults, fsvars, pvars, mvars, hvars>>

cvars == <<cpc, raw_text, cleaned_once, cleaned_twice>>
svars == <<ct_pc, ct_n, ct_chunk_tokens, ct_overlap, ct_i, ct_j, ct_chunk>>
ovars == <<cvars, svars>>

vars == <<wvars, dvars, ovars>>

-----------------------------------------------------------------------------
(* Bounds of the windower's inputs. *)
MaxN == 7
MaxW == 4
\* Slices recorded before the model stops following a generator that never
\* ends (with valid parameters a run yields at most n slices).
SliceCap == MaxN + 2

Min(a, b) == IF a <= b THEN a ELSE b
Max(a, b) == IF a >= b THEN a ELSE b

\* Mutants of the two steps of the recurrence.
WindowAdvanceNoOverlap(j0, v) == Max(0, j0)
WindowAdvanceByWindow(j0, v) == Max(0, j0 - window)
WindowAdvanceOneMore(j0, v) == Max(0, j0 - v + 1)

\* j = min(i + window, n)
WindowEnd(i0, w, len) == Min(i0 + w, len)

\* i = max(0, j - overlap)
WindowAdvance(j0, v) == Max(0, j0 - v)

-----------------------------------------------------------------------------
(* Texts, tokens and the tokenizer.                                          *)
(*                                                                           *)
(* A text is a sequence of words and a word a sequence of pieces: "p" is a   *)
(* punctuation mark ("#"), "w" a word-initial letter piece, "c" a            *)
(* continuation piece ("##c") and "b" a whole boilerplate line. The texts    *)
(* are scaled down: a piece stands for a run of characters, so the ratio and *)
(* character-class tests of the quality filter are modelled and its absolute *)
(* character counts (10, 3, MIN_CHAR_LENGTH, 200) are not.                   *)
(*                                                                           *)
(* The tokenizer is the WordPiece tokenizer the script loads from the        *)
(* transformers library. encode splits the words of a text into pieces;      *)
(* decode joins pieces into words. The two are not inverse: a slice that     *)
(* starts with a continuation piece decodes to a text that starts with the   *)
(* literal "##", which encodes as two punctuation marks and a word, so the   *)
(* text is `growth` tokens longer than the slice it was decoded from.        *)

RECURSIVE Flatten(_)
Flatten(words) ==
    IF words = <<>> THEN <<>> ELSE Head(words) \o Flatten(Tail(words))

RECURSIVE Pad(_)
Pad(k) == IF k <= 0 THEN <<>> ELSE <<"p">> \o Pad(k - 1)

\* The string a token sequence is joined to: a continuation piece is glued to
\* the word before it; one that leads the sequence has no word to join and
\* is written out literally ("##c"), which reads back as punctuation marks
\* followed by a word.
Literal(ids) ==
    IF ids # <<>> /\ Head(ids) = "c"
        THEN Pad(growth) \o <<"w">> \o Tail(ids)
        ELSE ids

RECURSIVE GroupFrom(_, _, _)
GroupFrom(ids, k, acc) ==
    IF k > Len(ids) THEN acc
    ELSE IF ids[k] = "c" /\ acc # <<>> /\ Head(acc[Len(acc)]) = "w"
        THEN GroupFrom(ids, k + 1,
                 [acc EXCEPT ![Len(acc)] = Append(acc[Len(acc)], "c")])
    ELSE IF ids[k] = "c"
        THEN GroupFrom(ids, k + 1, Append(acc, <<"w">>))
    ELSE GroupFrom(ids, k + 1, Append(acc, <<ids[k]>>))

\* safe_tokenize: tokenizer.encode(text, add_special_tokens=False)
safe_tokenize(text) == Flatten(text)

\* decode: tokenizer.decode(ids).strip()
decode(ids) == GroupFrom(Literal(ids), 1, <<>>)

\* cached_token_len
cached_token_len(text) == Len(safe_tokenize(text))

\* hash_text: the MD5 digest of the text, taken to be free of collisions.
hash_text(text) == <<"md5", text>>

IsAlpha(piece) == piece \in {"w", "c"}

AlphaChars(text) ==
    LET pieces == Flatten(text)
    IN  Cardinality({k \in 1..Len(pieces) : IsAlpha(pieces[k])})

\* len(text): the pieces and one space between two words.
CharLen(text) == Len(Flatten(text)) + (IF text = <<>> THEN 0 ELSE Len(text) - 1)

\* clean_boilerplate on a page text given as its words, a boilerplate line
\* being the one word "b": the boilerplate patterns delete the boilerplate
\* lines; the whitespace left is collapsed and trimmed. (The patterns and the
\* white space themselves are modelled by clean_boilerplate_raw.)
clean_boilerplate(text) ==
    LET NotBoilerplateLine(word) == word # <<"b">>
    IN  SelectSeq(text, NotBoilerplateLine)

\* is_boilerplate: empty; letters and spaces only (^[A-Z\s]+$ under
\* IGNORECASE); no word character at all (^\W+$); fewer than 30% letters.
is_boilerplate(text) ==
    LET pieces == Flatten(text)
    IN  \/ text = <<>>
        \/ \A k \in 1..Len(pieces) : IsAlpha(pieces[k])
        \/ \A k \in 1..Len(pieces) : ~IsAlpha(pieces[k])
        \/ AlphaChars(text) * 10 < 3 * Max(1, CharLen(text))

\* is_quality_chunk
is_quality_chunk(chunk) ==
    /\ chunk # <<>>
    /\ cached_token_len(chunk) >= config.MIN_TOKENS_PER_CHUNK
    /\ ~is_boilerplate(chunk)
    /\ LET pieces == Flatten(chunk)
       IN  \E k \in 1..Len(pieces) : IsAlpha(pieces[k])

\* sliding_windows as the sequence of slices it yields (window > 0 and
\* overlap < window, as ChunkingConfig has them).
RECURSIVE WindowsFrom(_, _, _, _)
WindowsFrom(token_ids, i0, w, v) ==
    IF i0 < Len(token_ids)
        THEN LET j0 == WindowEnd(i0, w, Len(token_ids))
             IN  <<SubSeq(token_ids, i0 + 1, j0)>> \o
                     (IF j0 >= Len(token_ids)
                         THEN <<>>
                         ELSE WindowsFrom(token_ids, WindowAdvance(j0, v), w, v))
        ELSE <<>>

sliding_windows(token_ids) ==
    WindowsFrom(token_ids, 0, config.ALLOWED_TOKENS, config.OVERLAP)

\* The decoded slices of ids that pass is_quality_chunk, in order.
QualityChunks(ids) ==
    LET wins == sliding_windows(ids)
        decoded == [k \in 1..Len(wins) |-> decode(wins[k])]
    IN  SelectSeq(decoded, is_quality_chunk)

\* chunk_text_no_truncation
chunk_text_no_truncation(text) ==
    IF text = <<>> \/ is_boilerplate(text) THEN <<>>
    ELSE IF safe_tokenize(text) = <<>> THEN <<>>
    ELSE QualityChunks(safe_tokenize(text))

\* The ChunkRecord of a chunk of page page_number (doc_id, file and category
\* are copied from the page record and left out).
ChunkRecord(page_number, text) ==
    [page_span |-> <<page_number, page_number>>,
     text |-> text,
     chunk_hash |-> hash_text(text)]

\* The records yielded for one chunk that passed deduplication: the chunk, or,
\* when it is longer than ALLOWED_TOKENS, its re-windowed sub-chunks.
RecordsOfChunk(page_number, chunk) ==
    IF cached_token_len(chunk) > config.ALLOWED_TOKENS
        THEN LET subs == QualityChunks(safe_tokenize(chunk))
             IN  [k \in 1..Len(subs) |-> ChunkRecord(page_number, subs[k])]
        ELSE <<ChunkRecord(page_number, chunk)>>

\* Deduplication: whether the chunk is dropped, given the hashes seen.
IsDuplicate(h, seen) == h \in seen

\* The loop of process_record over chunks[k..]: the records yielded, each with
\* seen_hashes as it is when the record is yielded, and seen_hashes at the end.
RECURSIVE RecordLoop(_, _, _, _)
RecordLoop(chunks, k, page_number, seen) ==
    IF k > Len(chunks) THEN [events |-> <<>>, seen |-> seen]
    ELSE IF IsDuplicate(hash_text(chunks[k]), seen)
        THEN RecordLoop(chunks, k + 1, page_number, seen)
    ELSE LET seen2 == seen \cup {hash_text(chunks[k])}
             recs == RecordsOfChunk(page_number, chunks[k])
             rest == RecordLoop(chunks, k + 1, page_number, seen2)
         IN  [events |-> [m \in 1..Len(recs) |-> [rec |-> recs[m], seen |-> seen2]]
                             \o rest.events,
              seen |-> rest.seen]

\* process_record(rec, seen_hashes)
process_record(rec, seen) ==
    LET text == clean_boilerplate(rec.text)
    IN  IF text = <<>> \/ is_boilerplate(text)
            THEN [events |-> <<>>, seen |-> seen]
            ELSE RecordLoop(chunk_text_no_truncation(text), 1, rec.page_number, seen)

\* The parameters the spec calls valid: W > 0 and 0 <= V < W.
ValidParams == window > 0 /\ overlap >= 0 /\ overlap < window

\* The worked example of the spec: 1000 tokens, window 500, overlap 60.
ExampleCase == <<1000, 500, 60>>

WindowInputs ==
    {<<len, w, v>> : len \in 0..MaxN, w \in 0..MaxW, v \in (0 - 1)..MaxW}
        \cup {ExampleCase}

WInit ==
    /\ \E inp \in WindowInputs :
          /\ n = inp[1]
          /\ window = inp[2]
          /\ overlap = inp[3]
    /\ wpc = "start"
    /\ i = 0
    /\ j = 0
    /\ slices = <<>>

\* First resumption: the parameter check, then i = 0, n = len(token_ids).
WStart ==
    /\ wpc = "start"
    /\ IF window <= 0
          THEN wpc' = "raised"
          ELSE wpc' = "loop"
    /\ i' = 0
    /\ UNCHANGED <<n, window, overlap, j, slices>>
    /\ UNCHANGED <<dvars, ovars>>

\* while i < n: j = min(i + window, n); yield token_ids[i:j]
WYield ==
    /\ wpc = "loop"
    /\ IF i < n
          THEN /\ Len(slices) < SliceCap
               /\ j' = WindowEnd(i, window, n)
               /\ slices' = Append(slices, <<i, j'>>)
               /\ wpc' = "yielded"
          ELSE /\ wpc' = "done"
               /\ UNCHANGED <<j, slices>>
    /\ UNCHANGED <<n, window, overlap, i>>
    /\ UNCHANGED <<dvars, ovars>>

\* Resumed after the yield: if j >= n: break; i = max(0, j - overlap)
WResume ==
    /\ wpc = "yielded"
    /\ IF j >= n
          THEN /\ wpc' = "done"
               /\ i' = i
          ELSE /\ wpc' = "loop"
               /\ i' = WindowAdvance(j, overlap)
    /\ UNCHANGED <<n, window, overlap, j, slices>>
    /\ UNCHANGED <<dvars, ovars>>

NextWindow == WStart \/ WYield \/ WResume

-----------------------------------------------------------------------------
(* clean_boilerplate on raw text.                                            *)
(*                                                                           *)
(* A raw text is a sequence of symbols, each a run of characters: " " is a   *)
(* space, "\n" a line break, "A" and "B" the two halves of a phrase of       *)
(* BOILERPLATE_PATTERNS that is matched anywhere and deleted with the rest   *)
(* of its line ("national building" and "code" of r"national building        *)
(* code.*"), "K" a phrase that is deleted when it is alone on its line       *)
(* ("confidential" of r"^\s*confidential\s*$") and "x" any other word.       *)

\* Symbols of a raw text, at most.
MaxChars == 4

Symbols == {"A", "B", "K", "x", " ", "\n"}

IsSpace(c) == c \in {" ", "\n"}

RawTexts == UNION {[1..m -> Symbols] : m \in 0..MaxChars}

\* The phrase "A B" starts at position k of t.
PhraseAt(t, k) ==
    /\ k + 2 <= Len(t)
    /\ t[k] = "A"
    /\ t[k + 1] = " "
    /\ t[k + 2] = "B"

\* re.sub(r"A B.*", "", t): "." matches no line break, so the match runs from
\* the phrase to the end of its line; deleting says whether position k is
\* inside a match.
RECURSIVE SubPhrase(_, _, _)
SubPhrase(t, k, deleting) ==
    IF k > Len(t) THEN <<>>
    ELSE IF t[k] = "\n" THEN <<t[k]>> \o SubPhrase(t, k + 1, FALSE)
    ELSE IF deleting \/ PhraseAt(t, k) THEN SubPhrase(t, k + 1, TRUE)
    ELSE <<t[k]>> \o SubPhrase(t, k + 1, FALSE)

\* Position k of t is on the same line as position m (k <= m).
SameLine(t, k, m) == \A q \in k..m : t[q] # "\n"

\* The symbol at position k is a "K" with nothing but spaces on its line.
AloneOnLine(t, k) ==
    /\ t[k] = "K"
    /\ \A m \in 1..Len(t) :
          (m # k /\ SameLine(t, IF m < k THEN m ELSE k, IF m < k THEN k ELSE m))
              => t[m] = " "

\* re.sub(r"^\s*K\s*$", "", t) under re.MULTILINE, up to the white space it
\* leaves, which the next step collapses.
SubAlone(t) ==
    LET Keep(k) == ~AloneOnLine(t, k)
        kept_at == {k \in 1..Len(t) : Keep(k)}
        RECURSIVE Pick(_)
        Pick(k) == IF k > Len(t) THEN <<>>
                   ELSE IF k \in kept_at THEN <<t[k]>> \o Pick(k + 1)
                   ELSE Pick(k + 1)
    IN  Pick(1)

\* re.sub(r"\s+", " ", t)
RECURSIVE CollapseSpace(_, _)
CollapseSpace(t, k) ==
    IF k > Len(t) THEN <<>>
    ELSE IF IsSpace(t[k])
        THEN IF k > 1 /\ IsSpace(t[k - 1])
                 THEN CollapseSpace(t, k + 1)
                 ELSE <<" ">> \o CollapseSpace(t, k + 1)
    ELSE <<t[k]>> \o CollapseSpace(t, k + 1)

\* str.strip() of a text whose white space is collapsed.
Strip(t) ==
    LET from == IF t # <<>> /\ IsSpace(t[1]) THEN 2 ELSE 1
        to == IF t # <<>> /\ IsSpace(t[Len(t)]) THEN Len(t) - 1 ELSE Len(t)
    IN  SubSeq(t, from, to)

\* clean_boilerplate(text) on a raw text: every pattern in turn, then the
\* white space collapsed and stripped.
clean_boilerplate_raw(t) ==
    IF t = <<>> THEN <<>>
    ELSE Strip(CollapseSpace(SubAlone(SubPhrase(t, 1, FALSE)), 1))

CInit ==
    /\ raw_text \in RawTexts
    /\ cpc = "input"
    /\ cleaned_once = <<>>
    /\ cleaned_twice = <<>>

\* t = clean_boilerplate(text)
CleanOnce ==
    /\ cpc = "input"
    /\ cleaned_once' = clean_boilerplate_raw(raw_text)
    /\ cpc' = "once"
    /\ UNCHANGED <<raw_text, cleaned_twice>>
    /\ UNCHANGED <<wvars, dvars, svars>>

\* clean_boilerplate(t)
CleanTwice ==
    /\ cpc = "once"
    /\ cleaned_twice' = clean_boilerplate_raw(cleaned_once)
    /\ cpc' = "twice"
    /\ UNCHANGED <<raw_text, cleaned_once>>
    /\ UNCHANGED <<wvars, dvars, svars>>

NextClean == CleanOnce \/ CleanTwice

\* The state of the cleaner when it is not the subject.
CleanerIdle ==
    /\ cpc = "twice"
    /\ raw_text = <<>>
    /\ cleaned_once = <<>>
    /\ cleaned_twice = <<>>

-----------------------------------------------------------------------------
(* chunk_text of the simple chunking script, 02_chunk_jsonl.py. *)

\* The call of the script, chunk_text(rec["text"]): 1000 tokens with the
\* default chunk_tokens = 500 and overlap = 60.
DefaultCase == <<1000, 500, 60>>

\* Token sequences and parameters with 0 <= overlap < chunk_tokens, as the
\* defaults are.
ChunkTextInputs ==
    {inp \in (0..MaxN) \X (1..MaxW) \X (0..MaxW) : inp[3] < inp[2]}
        \cup {DefaultCase}

\* j = min(i + chunk_tokens, len(tokens))
ChunkEnd(i0, w, len) == Min(i0 + w, len)

\* i = j - overlap
ChunkAdvance(j0, v) == j0 - v

SInit ==
    /\ \E inp \in ChunkTextInputs :
          /\ ct_n = inp[1]
          /\ ct_chunk_tokens = inp[2]
          /\ ct_overlap = inp[3]
    /\ ct_pc = "start"
    /\ ct_i = 0
    /\ ct_j = 0
    /\ ct_chunk = <<>>

\* First resumption: tokens = tokenizer.encode(...), i = 0
CTStart ==
    /\ ct_pc = "start"
    /\ ct_i' = 0
    /\ ct_pc' = "loop"
    /\ UNCHANGED <<ct_n, ct_chunk_tokens, ct_overlap, ct_j, ct_chunk>>
    /\ UNCHANGED <<wvars, dvars, cvars>>

\* while i < len(tokens): j = min(...); chunk = decode(tokens[i:j]); yield chunk
CTYield ==
    /\ ct_pc = "loop"
    /\ IF ct_i < ct_n
          THEN /\ ct_j' = ChunkEnd(ct_i, ct_chunk_tokens, ct_n)
               /\ ct_chunk' = <<ct_i, ct_j'>>
               /\ ct_pc' = "yielded"
          ELSE /\ ct_pc' = "done"
               /\ UNCHANGED <<ct_j, ct_chunk>>
    /\ UNCHANGED <<ct_n, ct_chunk_tokens, ct_overlap, ct_i>>
    /\ UNCHANGED <<wvars, dvars, cvars>>

\* Resumed after the yield: i = j - overlap
CTResume ==
    /\ ct_pc = "yielded"
    /\ ct_i' = ChunkAdvance(ct_j, ct_overlap)
    /\ ct_pc' = "loop"
    /\ UNCHANGED <<ct_n, ct_chunk_tokens, ct_overlap, ct_j, ct_chunk>>
    /\ UNCHANGED <<wvars, dvars, cvars>>

NextSimple == CTStart \/ CTYield \/ CTResume

\* The state of chunk_text when it is not the subject.
SimpleIdle ==
    /\ ct_pc = "done"
    /\ ct_n = 0
    /\ ct_chunk_tokens = 1
    /\ ct_overlap = 0
    /\ ct_i = 0
    /\ ct_j = 0
    /\ ct_chunk = <<>>

OthersIdle == CleanerIdle /\ SimpleIdle

-----------------------------------------------------------------------------
(* The inputs of the file driver. *)

\* Lines of an input file, at most.
MaxLines == 3
\* Lines of an input file when several files are processed, at most.
MaxMainLines == 2
\* The checkpoint period, scaled down (the source writes it every 1000 lines).
CheckpointEvery == 2
\* Invocations of main on the same files, at most.
MaxRuns == 2
\* File operations that fail in one run of main, at most.
MaxFaults == 1

\* Page texts: "# w"; a boilerplate line and "# w"; "# wcc"; "# wcccc".
PageTexts ==
    { << <<"p">>, <<"w">> >>,
      << <<"b">>, <<"p">>, <<"w">> >>,
      << <<"p">>, <<"w", "c", "c">> >>,
      << <<"p">>, <<"w", "c", "c", "c", "c">> >> }

MainPageTexts ==
    { << <<"p">>, <<"w">> >>,
      << <<"p">>, <<"w", "c", "c">> >> }

\* The page text of the files processed side by side: the same page may be
\* in both files.
ParPageTexts ==
    { << <<"p">>, <<"w", "c", "c">> >> }

\* A line that json.loads rejects.
BadLine == [bad |-> TRUE, text |-> <<>>]

PageLine(text) == [bad |-> FALSE, text |-> text]

Lines(texts) == {BadLine} \cup {PageLine(t) : t \in texts}

InputFiles(texts, maxLen) == UNION {[1..m -> Lines(texts)] : m \in 1..maxLen}

\* Scaled-down ChunkingConfig values, each with ALLOWED_TOKENS > 0 and
\* 0 <= OVERLAP < ALLOWED_TOKENS as the source has them (490 and 60), each
\* with a tokenizer: one (WordPiece) that writes the "##" of a leading
\* continuation piece out, which reads back two tokens longer, or one that
\* drops it.
Setups ==
    { [config |-> [ALLOWED_TOKENS |-> 2, OVERLAP |-> 1, MIN_TOKENS_PER_CHUNK |-> 1],
       growth |-> 2],
      [config |-> [ALLOWED_TOKENS |-> 3, OVERLAP |-> 0, MIN_TOKENS_PER_CHUNK |-> 1],
       growth |-> 2],
      [config |-> [ALLOWED_TOKENS |-> 2, OVERLAP |-> 0, MIN_TOKENS_PER_CHUNK |-> 2],
       growth |-> 0] }

NoCheckpoint == [exists |-> FALSE, hashes |-> {}]

\* The name of input file f in CLEANED_DIR, as glob("*.jsonl") finds it: in
\* one directory no two files have the same name.
FileName(f) == <<f, ".jsonl">>

\* Path.stem: the name without its suffix.
stem(name) == name[1]

out_path_shared(f) == <<"all", "_chunks.jsonl">>

\* out_path = OUT_DIR / f"{category}_chunks.jsonl", category = jsonl_file.stem
out_path(f) == <<stem(FileName(f)), "_chunks.jsonl">>

\* checkpoint_files: OUT_DIR / f"{jsonl_file.stem}_checkpoint.txt"
checkpoint_files(f) == <<stem(FileName(f)), "_checkpoint.txt">>

\* OUT_DIR with no output file and no checkpoint file of these input files.
EmptyDisk(files) ==
    /\ outFile = [path \in {out_path(f) : f \in files} |-> <<>>]
    /\ ckptFile = [path \in {checkpoint_files(f) : f \in files} |-> NoCheckpoint]

\* The state of the windower when it is not the subject.
WindowIdle ==
    /\ wpc = "done"
    /\ n = 0
    /\ window = 1
    /\ overlap = 0
    /\ i = 0
    /\ j = 0
    /\ slices = <<>>

\* The state of the driver when it is not the subject.
DriverIdle ==
    /\ jsonl_files = {}
    /\ input = <<>>
    /\ config = [ALLOWED_TOKENS |-> 1, OVERLAP |-> 0, MIN_TOKENS_PER_CHUNK |-> 1]
    /\ growth = 0
    /\ cpu_count = 1
    /\ faults = 0
    /\ outFile = <<>>
    /\ ckptFile = <<>>
    /\ pc = <<>>
    /\ seen_hashes = <<>>
    /\ kept = <<>>
    /\ skipped = <<>>
    /\ line_num = <<>>
    /\ mainPc = "done"
    /\ total_kept = 0
    /\ total_skipped = 0
    /\ runs = 0
    /\ processed_hashes = <<>>
    /\ outAtStart = <<>>
    /\ ckptAtStart = <<>>

\* The in-memory state of a fresh invocation of main over files.
FreshRun(files) ==
    /\ pc = [f \in files |-> "pending"]
    /\ seen_hashes = [f \in files |-> {}]
    /\ kept = [f \in files |-> 0]
    /\ skipped = [f \in files |-> 0]
    /\ line_num = [f \in files |-> 0]
    /\ mainPc = "running"
    /\ total_kept = 0
    /\ total_skipped = 0
    /\ processed_hashes = [f \in files |-> {}]
    /\ outAtStart = [f \in files |-> 0]
    /\ ckptAtStart = [f \in files |-> FALSE]

\* main over one input file, nothing on disk yet.
DInit ==
    /\ jsonl_files = {1}
    /\ input \in [{1} -> InputFiles(PageTexts, MaxLines)]
    /\ \E s \in Setups : config = s.config /\ growth = s.growth
    /\ cpu_count = 1
    /\ faults = 0
    /\ EmptyDisk({1})
    /\ runs = 1
    /\ FreshRun({1})

\* main over two input files, nothing on disk yet.
MInit ==
    /\ jsonl_files = {1, 2}
    /\ input \in [{1, 2} -> InputFiles(MainPageTexts, MaxMainLines)]
    /\ config = [ALLOWED_TOKENS |-> 2, OVERLAP |-> 1, MIN_TOKENS_PER_CHUNK |-> 1]
    /\ growth = 2
    /\ cpu_count \in {1, 2}
    /\ faults \in 0..MaxFaults
    /\ EmptyDisk({1, 2})
    /\ runs = 1
    /\ FreshRun({1, 2})

-----------------------------------------------------------------------------
(* main and process_single_file. *)

\* main: len(jsonl_files) > 1 and multiprocessing.cpu_count() > 1
Parallel == Cardinality(jsonl_files) > 1 /\ cpu_count > 1

\* main builds a checkpoint path for every input file, so the checkpoint_file
\* argument of process_single_file is never None.
CheckpointFileGiven(f) == TRUE

OpenModeAlwaysWrite(checkpoint_file) == "w"

\* open(out_path, "a" if checkpoint_file else "w")
OpenMode(checkpoint_file) == IF checkpoint_file THEN "a" ELSE "w"

\* The checkpoint file as written from seen_hashes.
CheckpointOf(seen) == [exists |-> TRUE, hashes |-> seen]

\* rec = json.loads(line) of line ln; pages are numbered as the lines are.
RecOf(line, ln) == [page_number |-> ln, text |-> line.text]

LineResultNoCount(line, ln, seen) ==
    IF line.bad
        THEN [events |-> <<>>, seen |-> seen, skipped |-> 0]
        ELSE LET res == process_record(RecOf(line, ln), seen)
             IN  [events |-> res.events, seen |-> res.seen, skipped |-> 0]

\* The body of the line loop for one line: json.JSONDecodeError counts the
\* line as skipped; otherwise the records of process_record are written.
LineResult(line, ln, seen) ==
    IF line.bad
        THEN [events |-> <<>>, seen |-> seen, skipped |-> 1]
        ELSE LET res == process_record(RecOf(line, ln), seen)
             IN  [events |-> res.events, seen |-> res.seen, skipped |-> 0]

RecordsOf(events) == [k \in 1..Len(events) |-> events[k].rec]

NextLine(f) == input[f][line_num[f] + 1]

NextResult(f) == LineResult(NextLine(f), line_num[f] + 1, seen_hashes[f])

\* line_num % 1000 == 0 and checkpoint_file
CheckpointDue(f, ln) == ln % CheckpointEvery = 0 /\ CheckpointFileGiven(f)

\* processed_hashes: the lines of the checkpoint file, if there is one.
LoadCheckpoint(f) ==
    IF CheckpointFileGiven(f) /\ ckptFile[checkpoint_files(f)].exists
        THEN ckptFile[checkpoint_files(f)].hashes
        ELSE {}

InitialSeenEmpty(processed) == {}

\* seen_hashes = set(processed_hashes)
InitialSeen(processed) == processed

\* The executor, or the sequential loop, lets file f start.
MayStart(f) ==
    /\ mainPc = "running"
    /\ pc[f] = "pending"
    /\ Parallel \/ \A g \in jsonl_files : g < f => pc[g] \in {"completed", "failed"}

\* The process running process_single_file(f) is alive.
Alive(f) == pc[f] = "reading" /\ (mainPc = "running" \/ Parallel)

\* process_single_file up to the line loop: load the checkpoint, open the files.
StartFile(f) ==
    /\ MayStart(f)
    /\ processed_hashes' = [processed_hashes EXCEPT ![f] = LoadCheckpoint(f)]
    /\ seen_hashes' = [seen_hashes EXCEPT ![f] = InitialSeen(LoadCheckpoint(f))]
    /\ kept' = [kept EXCEPT ![f] = 0]
    /\ skipped' = [skipped EXCEPT ![f] = 0]
    /\ line_num' = [line_num EXCEPT ![f] = 0]
    /\ outFile' = [outFile EXCEPT ![out_path(f)] =
           IF OpenMode(CheckpointFileGiven(f)) = "a" THEN outFile[out_path(f)] ELSE <<>>]
    /\ pc' = [pc EXCEPT ![f] = "reading"]
    /\ outAtStart' = [outAtStart EXCEPT ![f] = Len(outFile'[out_path(f)])]
    /\ ckptAtStart' = [ckptAtStart EXCEPT ![f] =
           CheckpointFileGiven(f) /\ ckptFile[checkpoint_files(f)].exists]
    /\ UNCHANGED <<envvars, faults, ckptFile, mvars, wvars, ovars>>

\* One iteration of the line loop: the line's records are written, then the
\* periodic checkpoint.
ProcessLine(f) ==
    /\ Alive(f)
    /\ line_num[f] < Len(input[f])
    /\ LET res == NextResult(f)
           ln == line_num[f] + 1
       IN  /\ outFile' = [outFile EXCEPT ![out_path(f)] =
                  outFile[out_path(f)] \o RecordsOf(res.events)]
           /\ kept' = [kept EXCEPT ![f] = kept[f] + Len(res.events)]
           /\ skipped' = [skipped EXCEPT ![f] = skipped[f] + res.skipped]
           /\ seen_hashes' = [seen_hashes EXCEPT ![f] = res.seen]
           /\ line_num' = [line_num EXCEPT ![f] = ln]
           /\ ckptFile' = [ckptFile EXCEPT ![checkpoint_files(f)] =
                  IF CheckpointDue(f, ln)
                      THEN CheckpointOf(res.seen)
                      ELSE ckptFile[checkpoint_files(f)]]
    /\ UNCHANGED <<envvars, faults, pc, mvars, hvars, wvars, ovars>>

\* After the last line: the final checkpoint save, return kept, skipped, True.
Finish(f) ==
    /\ Alive(f)
    /\ line_num[f] = Len(input[f])
    /\ ckptFile' = [ckptFile EXCEPT ![checkpoint_files(f)] =
           IF CheckpointFileGiven(f)
               THEN CheckpointOf(seen_hashes[f])
               ELSE ckptFile[checkpoint_files(f)]]
    /\ pc' = [pc EXCEPT ![f] = "completed"]
    /\ UNCHANGED <<envvars, faults, outFile, seen_hashes, kept, skipped, line_num,
                   mvars, hvars, wvars, ovars>>

RECURSIVE SumOver(_, _)
SumOver(files, count) ==
    IF files = {} THEN 0
    ELSE LET f == CHOOSE g \in files : TRUE
         IN  count[f] + SumOver(files \ {f}, count)

Completed == {f \in jsonl_files : pc[f] = "completed"}

\* main once every file has returned: the totals of the files that succeeded.
MainCollect ==
    /\ mainPc = "running"
    /\ \A f \in jsonl_files : pc[f] \in {"completed", "failed"}
    /\ total_kept' = SumOver(Completed, kept)
    /\ total_skipped' = SumOver(Completed, skipped)
    /\ mainPc' = "done"
    /\ UNCHANGED <<envvars, faults, fsvars, pvars, runs, hvars, wvars, ovars>>

\* KeyboardInterrupt while file f is being read, after k records of the next
\* line were written (k = 0: between two lines, or before the final save):
\* the with blocks close the files and main ends without a checkpoint save.
Interrupt(f) ==
    /\ mainPc = "running"
    /\ pc[f] = "reading"
    /\ LET recs == IF line_num[f] < Len(input[f])
                       THEN RecordsOf(NextResult(f).events) ELSE <<>>
       IN  \E k \in 0..Len(recs) :
              outFile' = [outFile EXCEPT ![out_path(f)] =
                             outFile[out_path(f)] \o SubSeq(recs, 1, k)]
    /\ pc' = [pc EXCEPT ![f] = "interrupted"]
    /\ mainPc' = "interrupted"
    /\ UNCHANGED <<envvars, faults, ckptFile, seen_hashes, kept, skipped, line_num,
                   total_kept, total_skipped, runs, hvars, wvars, ovars>>

\* main is run again on the same input files; the files on disk are kept.
Rerun ==
    /\ mainPc \in {"interrupted", "killed", "done"}
    /\ runs < MaxRuns
    /\ runs' = runs + 1
    /\ pc' = [f \in jsonl_files |-> "pending"]
    /\ seen_hashes' = [f \in jsonl_files |-> {}]
    /\ kept' = [f \in jsonl_files |-> 0]
    /\ skipped' = [f \in jsonl_files |-> 0]
    /\ line_num' = [f \in jsonl_files |-> 0]
    /\ mainPc' = "running"
    /\ total_kept' = 0
    /\ total_skipped' = 0
    /\ processed_hashes' = [f \in jsonl_files |-> {}]
    /\ outAtStart' = [f \in jsonl_files |-> 0]
    /\ ckptAtStart' = [f \in jsonl_files |-> FALSE]
    /\ UNCHANGED <<envvars, faults, fsvars, wvars, ovars>>

-----------------------------------------------------------------------------
(* Failing file operations. *)

\* open() of the input or the output file raises: caught by the outer except,
\* return kept, skipped, False.
StartOpenFail(f) ==
    /\ MayStart(f)
    /\ faults > 0
    /\ faults' = faults - 1
    /\ pc' = [pc EXCEPT ![f] = "failed"]
    /\ UNCHANGED <<envvars, fsvars, seen_hashes, kept, skipped, line_num,
                   mvars, hvars, wvars, ovars>>

\* out_f.write raises on the k-th record of the line: caught by the inner
\* except Exception, the line counts as skipped and the loop goes on.
LineWriteFail(f) ==
    /\ Alive(f)
    /\ line_num[f] < Len(input[f])
    /\ faults > 0
    /\ faults' = faults - 1
    /\ LET res == NextResult(f)
           ln == line_num[f] + 1
       IN  \E k \in 1..Len(res.events) :
             /\ outFile' = [outFile EXCEPT ![out_path(f)] =
                    outFile[out_path(f)] \o SubSeq(RecordsOf(res.events), 1, k - 1)]
             /\ kept' = [kept EXCEPT ![f] = kept[f] + (k - 1)]
             /\ skipped' = [skipped EXCEPT ![f] = skipped[f] + 1]
             /\ seen_hashes' = [seen_hashes EXCEPT ![f] = res.events[k].seen]
             /\ line_num' = [line_num EXCEPT ![f] = ln]
             /\ ckptFile' = [ckptFile EXCEPT ![checkpoint_files(f)] =
                    IF CheckpointDue(f, ln)
                        THEN CheckpointOf(res.events[k].seen)
                        ELSE ckptFile[checkpoint_files(f)]]
    /\ UNCHANGED <<envvars, pc, mvars, hvars, wvars, ovars>>

\* open() of the checkpoint file raises at the periodic save: caught by the
\* outer except, return kept, skipped, False.
PeriodicSaveFail(f) ==
    /\ Alive(f)
    /\ line_num[f] < Len(input[f])
    /\ CheckpointDue(f, line_num[f] + 1)
    /\ faults > 0
    /\ faults' = faults - 1
    /\ LET res == NextResult(f)
       IN  /\ outFile' = [outFile EXCEPT ![out_path(f)] =
                  outFile[out_path(f)] \o RecordsOf(res.events)]
           /\ kept' = [kept EXCEPT ![f] = kept[f] + Len(res.events)]
           /\ skipped' = [skipped EXCEPT ![f] = skipped[f] + res.skipped]
           /\ seen_hashes' = [seen_hashes EXCEPT ![f] = res.seen]
           /\ line_num' = [line_num EXCEPT ![f] = line_num[f] + 1]
    /\ pc' = [pc EXCEPT ![f] = "failed"]
    /\ UNCHANGED <<envvars, ckptFile, mvars, hvars, wvars, ovars>>

\* open() of the checkpoint file raises at the final save, which no try
\* encloses: the exception leaves process_single_file. In the sequential loop
\* it leaves main as well.
FinalSaveFail(f) ==
    /\ Alive(f)
    /\ line_num[f] = Len(input[f])
    /\ CheckpointFileGiven(f)
    /\ faults > 0
    /\ faults' = faults - 1
    /\ pc' = [pc EXCEPT ![f] = "raised"]
    /\ mainPc' = IF Parallel THEN mainPc ELSE "crashed"
    /\ UNCHANGED <<envvars, fsvars, seen_hashes, kept, skipped, line_num,
                   total_kept, total_skipped, runs, hvars, wvars, ovars>>

\* Parallel mode: list(executor.map(...)) re-raises the exception of the first
\* file that raised, once the results before it are in.
MainReraise ==
    /\ mainPc = "running"
    /\ Parallel
    /\ \E f \in jsonl_files :
          /\ pc[f] = "raised"
          /\ \A g \in jsonl_files : g < f => pc[g] \in {"completed", "failed"}
    /\ mainPc' = "crashed"
    /\ UNCHANGED <<envvars, faults, fsvars, pvars, total_kept, total_skipped, runs,
                   hvars, wvars, ovars>>

-----------------------------------------------------------------------------
(* The process is killed (SIGKILL, power loss): nothing is caught and no     *)
(* with block is left in an orderly way. What the process had written to a   *)
(* file but not yet flushed is lost, so the output file keeps a prefix of    *)
(* the records written to it, the records of earlier runs included. A        *)
(* checkpoint file that was open for writing was truncated by open(.., 'w')  *)
(* and holds the part of the hash lines that reached the disk.               *)

\* What a killed run leaves of the output file: a prefix of the records
\* written, earlier runs' records at least.
OutputSurviving(f, written) ==
    {SubSeq(written, 1, m) : m \in outAtStart[f]..Len(written)}

\* What a killed checkpoint write leaves of the checkpoint file: the file
\* was truncated; some of the lines of seen_hashes were written out.
CheckpointSurviving(seen) == {[exists |-> TRUE, hashes |-> part] : part \in SUBSET seen}

\* Killed in the line loop, no checkpoint write in progress: after k records
\* of the next line were written.
Kill(f) ==
    /\ Alive(f)
    /\ LET recs == IF line_num[f] < Len(input[f])
                       THEN RecordsOf(NextResult(f).events) ELSE <<>>
       IN  \E k \in 0..Len(recs) :
              \E left \in OutputSurviving(f, outFile[out_path(f)] \o SubSeq(recs, 1, k)) :
                  outFile' = [outFile EXCEPT ![out_path(f)] = left]
    /\ pc' = [pc EXCEPT ![f] = "killed"]
    /\ mainPc' = "killed"
    /\ UNCHANGED <<envvars, faults, ckptFile, seen_hashes, kept, skipped, line_num,
                   total_kept, total_skipped, runs, hvars, wvars, ovars>>

\* Killed inside the periodic checkpoint write of the next line.
KillInPeriodicSave(f) ==
    /\ Alive(f)
    /\ line_num[f] < Len(input[f])
    /\ CheckpointDue(f, line_num[f] + 1)
    /\ LET res == NextResult(f)
       IN  /\ \E left \in OutputSurviving(f, outFile[out_path(f)] \o RecordsOf(res.events)) :
                  outFile' = [outFile EXCEPT ![out_path(f)] = left]
           /\ \E ck \in CheckpointSurviving(res.seen) :
                  ckptFile' = [ckptFile EXCEPT ![checkpoint_files(f)] = ck]
    /\ pc' = [pc EXCEPT ![f] = "killed"]
    /\ mainPc' = "killed"
    /\ UNCHANGED <<envvars, faults, seen_hashes, kept, skipped, line_num,
                   total_kept, total_skipped, runs, hvars, wvars, ovars>>

\* Killed inside the final checkpoint write; the output file is closed.
KillInFinalSave(f) ==
    /\ Alive(f)
    /\ line_num[f] = Len(input[f])
    /\ CheckpointFileGiven(f)
    /\ \E ck \in CheckpointSurviving(seen_hashes[f]) :
           ckptFile' = [ckptFile EXCEPT ![checkpoint_files(f)] = ck]
    /\ pc' = [pc EXCEPT ![f] = "killed"]
    /\ mainPc' = "killed"
    /\ UNCHANGED <<envvars, faults, outFile, seen_hashes, kept, skipped, line_num,
                   total_kept, total_skipped, runs, hvars, wvars, ovars>>

-----------------------------------------------------------------------------
(* The specifications. *)

InitWindow == WInit /\ DriverIdle /\ OthersIdle

\* The consumer of the generator is a for loop: it always asks for the next slice.
SpecWindow == InitWindow /\ [][NextWindow]_vars /\ WF_vars(NextWindow)

Init == DInit /\ WindowIdle /\ OthersIdle

Next ==
    \/ \E f \in jsonl_files : StartFile(f)
    \/ \E f \in jsonl_files : ProcessLine(f)
    \/ \E f \in jsonl_files : Finish(f)
    \/ \E f \in jsonl_files : Interrupt(f)
    \/ MainCollect
    \/ Rerun

Spec == Init /\ [][Next]_vars

InitMain == MInit /\ WindowIdle /\ OthersIdle

NextMain ==
    \/ \E f \in jsonl_files : StartFile(f)
    \/ \E f \in jsonl_files : ProcessLine(f)
    \/ \E f \in jsonl_files : Finish(f)
    \/ \E f \in jsonl_files : StartOpenFail(f)
    \/ \E f \in jsonl_files : LineWriteFail(f)
    \/ \E f \in jsonl_files : PeriodicSaveFail(f)
    \/ \E f \in jsonl_files : FinalSaveFail(f)
    \/ MainCollect
    \/ MainReraise

SpecMain == InitMain /\ [][NextMain]_vars

InitClean == CInit /\ WindowIdle /\ DriverIdle /\ SimpleIdle

InitSimple == SInit /\ WindowIdle /\ DriverIdle /\ CleanerIdle

\* The consumer of the generator is a for loop: it always asks for the next chunk.
SpecSimple == InitSimple /\ [][NextSimple]_vars /\ WF_vars(NextSimple)

SpecClean == InitClean /\ [][NextClean]_vars

\* main over two input files, no file operation failing.
PInit ==
    /\ jsonl_files = {1, 2}
    /\ input \in [{1, 2} -> InputFiles(ParPageTexts, MaxMainLines)]
    /\ config = [ALLOWED_TOKENS |-> 2, OVERLAP |-> 1, MIN_TOKENS_PER_CHUNK |-> 1]
    /\ growth = 2
    /\ cpu_count \in {1, 2}
    /\ faults = 0
    /\ EmptyDisk({1, 2})
    /\ runs = 1
    /\ FreshRun({1, 2})

InitPar == PInit /\ WindowIdle /\ OthersIdle

\* In parallel mode the workers' steps interleave in every way.
NextPar ==
    \/ \E f \in jsonl_files : StartFile(f)
    \/ \E f \in jsonl_files : ProcessLine(f)
    \/ \E f \in jsonl_files : Finish(f)
    \/ MainCollect

SpecPar == InitPar /\ [][NextPar]_vars

\* main over one input file, killed at any moment and run again.
KInit ==
    /\ jsonl_files = {1}
    /\ input \in [{1} -> InputFiles(MainPageTexts, MaxMainLines)]
    /\ config = [ALLOWED_TOKENS |-> 2, OVERLAP |-> 1, MIN_TOKENS_PER_CHUNK |-> 1]
    /\ growth = 2
    /\ cpu_count = 1
    /\ faults = 0
    /\ EmptyDisk({1})
    /\ runs = 1
    /\ FreshRun({1})

InitKill == KInit /\ WindowIdle /\ OthersIdle

NextKill ==
    \/ \E f \in jsonl_files : StartFile(f)
    \/ \E f \in jsonl_files : ProcessLine(f)
    \/ \E f \in jsonl_files : Finish(f)
    \/ \E f \in jsonl_files : Kill(f)
    \/ \E f \in jsonl_files : KillInPeriodicSave(f)
    \/ \E f \in jsonl_files : KillInFinalSave(f)
    \/ MainCollect
    \/ Rerun

SpecKill == InitKill /\ [][NextKill]_vars

-----------------------------------------------------------------------------
(* Claims about sliding_windows, checked under SpecWindow. *)

LastSlice == slices[Len(slices)]

\* C1: for n >= 1, W > 0 and 0 <= V < W the slices are contiguous and
\* non-empty, the first starts at offset 0, each is at most W long, each
\* later one starts exactly V tokens before the end of the one before it, and
\* when the generator has finished the last one ends at n; 1000 tokens with
\* W = 500 and V = 60 give exactly [0,500), [440,940), [880,1000).
C1_WindowsCoverWithOverlap ==
    (ValidParams /\ n >= 1) =>
        /\ slices # <<>> => slices[1][1] = 0
        /\ \A k \in 1..Len(slices) :
              /\ 0 <= slices[k][1]
              /\ slices[k][1] < slices[k][2]
              /\ slices[k][2] <= n
              /\ slices[k][2] - slices[k][1] <= window
        /\ \A k \in 2..Len(slices) : slices[k][1] = slices[k - 1][2] - overlap
        /\ wpc = "done" => (slices # <<>> /\ LastSlice[2] = n)
        /\ (wpc = "done" /\ <<n, window, overlap>> = ExampleCase) =>
              slices = << <<0, 500>>, <<440, 940>>, <<880, 1000>> >>

\* A finished run of three or more overlapping slices.
C1_Witness ==
    /\ wpc = "done"
    /\ ValidParams
    /\ overlap > 0
    /\ Len(slices) >= 3

C2_StopsAtEnd ==
    ValidParams =>
        /\ \A k \in 1..(Len(slices) - 1) : slices[k][2] < n
        /\ (wpc = "loop" /\ slices # <<>>) => LastSlice[2] < n
        /\ (wpc = "done" /\ n >= 1) => (slices # <<>> /\ LastSlice[2] = n)
        /\ Len(slices) <= n

\* C2: with W > 0 and 0 <= V < W the generator terminates after finitely many
\* slices (at most n), no slice follows one that ends at n, and it finishes
\* exactly when the slice just yielded ends at n.
C2_TerminatesAtEnd ==
    /\ (ValidParams ~> (wpc = "done"))
    /\ []C2_StopsAtEnd

\* A run that has finished after more than one slice.
C2_Witness ==
    /\ wpc = "done"
    /\ ValidParams
    /\ Len(slices) >= 2
    /\ LastSlice[2] = n

\* C3: with W <= 0, or V outside 0 <= V < W, the windower fails before it
\* yields any slice.
C3_InvalidParamsRejected ==
    ~ValidParams => (slices = <<>> /\ wpc # "done")

\* ceil(a / d) for d > 0
CeilDiv(a, d) == (a + d - 1) \div d

\* C15: with W > 0 and 0 <= V < W, a finished run has yielded exactly
\* ceil((n - V) / (W - V)) slices.
C15_SliceCountCeil ==
    (wpc = "done" /\ ValidParams) =>
        Len(slices) = CeilDiv(n - overlap, window - overlap)

\* C15, amended: with W > 0 and 0 <= V < W, a finished run has yielded no
\* slice when n = 0, one slice when 1 <= n <= V, and
\* ceil((n - V) / (W - V)) slices when n > V.
C15_SliceCountExact ==
    (wpc = "done" /\ ValidParams) =>
        Len(slices) = IF n = 0 THEN 0
                      ELSE Max(1, CeilDiv(n - overlap, window - overlap))

\* A finished run over a sequence no longer than the overlap: one slice.
C15_Witness ==
    /\ wpc = "done"
    /\ ValidParams
    /\ n >= 1
    /\ n <= overlap
    /\ Len(slices) = 1

-----------------------------------------------------------------------------
(* Claims about process_record and process_single_file, checked under Spec. *)

\* The records this run of process_single_file(f) has written.
ThisRun(f) == SubSeq(outFile[out_path(f)], outAtStart[f] + 1, Len(outFile[out_path(f)]))

\* The records that were in the output file when this run opened it.
EarlierRuns(f) == SubSeq(outFile[out_path(f)], 1, outAtStart[f])

Hashes(recs) == {recs[k].chunk_hash : k \in 1..Len(recs)}

Started(f) == pc[f] \in {"reading", "completed", "interrupted"}

\* C4: in a run that loaded no checkpoint, no two records written by the run
\* have the same chunk_hash.
C4_UniqueHashesInRun ==
    \A f \in jsonl_files :
        (Started(f) /\ ~ckptAtStart[f]) =>
            \A a, b \in 1..Len(ThisRun(f)) :
                a # b => ThisRun(f)[a].chunk_hash # ThisRun(f)[b].chunk_hash

\* C5: a run that resumes an interrupted run with its checkpoint loaded
\* writes no chunk that the output file already held.
C5_ResumeNeverReEmits ==
    \A f \in jsonl_files :
        (Started(f) /\ runs > 1 /\ ckptAtStart[f]) =>
            Hashes(ThisRun(f)) \cap Hashes(EarlierRuns(f)) = {}

\* process_single_file(f, None) on a fresh output file, in one pass: the
\* records written.
RECURSIVE UncheckpointedPass(_, _, _)
UncheckpointedPass(lines, ln, seen) ==
    IF ln > Len(lines) THEN <<>>
    ELSE LET res == LineResult(lines[ln], ln, seen)
         IN  RecordsOf(res.events) \o UncheckpointedPass(lines, ln + 1, res.seen)

C7_TokenLengthBounded ==
    \A f \in jsonl_files :
        \A k \in 1..Len(outFile[out_path(f)]) :
            cached_token_len(outFile[out_path(f)][k].text) <= config.ALLOWED_TOKENS

BadLines(lines) == Cardinality({k \in 1..Len(lines) : lines[k].bad})

C9_BadLineStep ==
    \A f \in jsonl_files :
        ( /\ pc[f] = "reading"
          /\ line_num[f] < Len(input[f])
          /\ NextLine(f).bad
          /\ line_num'[f] = line_num[f] + 1 ) =>
            /\ skipped'[f] = skipped[f] + 1
            /\ kept'[f] = kept[f]
            /\ outFile'[out_path(f)] = outFile[out_path(f)]
            /\ seen_hashes'[f] = seen_hashes[f]
            /\ pc'[f] = "reading"

C9_AllLinesRead ==
    \A f \in jsonl_files :
        pc[f] = "completed" =>
            /\ line_num[f] = Len(input[f])
            /\ skipped[f] = BadLines(input[f])

\* C9: reading a line that is not JSON adds one to skipped, writes nothing,
\* leaves seen_hashes as it is and leaves the file being read; a file that
\* completes has read every line and skipped exactly its malformed lines.
C9_BadLineSkipped == [][C9_BadLineStep]_vars /\ []C9_AllLinesRead

\* A completed file whose first line was malformed and whose later lines gave
\* records.
C9_Witness ==
    \E f \in jsonl_files :
        /\ pc[f] = "completed"
        /\ input[f][1].bad
        /\ skipped[f] >= 1
        /\ kept[f] >= 1

\* C10: when a run that found no checkpoint file completes, the output file
\* holds exactly the records of this run.
C10_FreshStartWithoutCheckpoint ==
    \A f \in jsonl_files :
        (pc[f] = "completed" /\ ~ckptAtStart[f]) =>
            /\ outAtStart[f] = 0
            /\ outFile[out_path(f)] = ThisRun(f)

\* The input line a record comes from: pages are numbered as the lines are.
SourceLine(rec) == rec.page_span[1]

\* The records the windower path emits for line ln of f, in emission order,
\* when no chunk is dropped as a duplicate.
Emission(f, ln) ==
    RecordsOf(LineResult(input[f][ln], ln, {}).events)

\* Record a is emitted for its line no later than record b of the same line.
EmittedNoLater(f, a, b) ==
    LET em == Emission(f, SourceLine(a))
    IN  \E ka, kb \in 1..Len(em) : em[ka] = a /\ em[kb] = b /\ ka <= kb

InInputOrder(f, recs) ==
    \A a, b \in 1..Len(recs) :
        a < b =>
            \/ SourceLine(recs[a]) < SourceLine(recs[b])
            \/ /\ SourceLine(recs[a]) = SourceLine(recs[b])
               /\ EmittedNoLater(f, recs[a], recs[b])

\* C12: in an output file, a record written before another comes from an
\* earlier input line, or from the same line and a window the windower
\* emitted no later.
C12_OutputInInputOrder ==
    \A f \in jsonl_files : InInputOrder(f, outFile[out_path(f)])

\* The records one run writes are in input order.
RunInInputOrder ==
    \A f \in jsonl_files : InInputOrder(f, ThisRun(f))

\* seen_hashes after the lines ln..upto of process_single_file's loop.
RECURSIVE SeenAfter(_, _, _, _)
SeenAfter(lines, ln, upto, seen) ==
    IF ln > upto THEN seen
    ELSE SeenAfter(lines, ln + 1, upto, LineResult(lines[ln], ln, seen).seen)

\* The hashes process_record registers in a run over all lines of f that
\* starts from the hashes loaded.
RegisteredInRun(f) ==
    SeenAfter(input[f], 1, Len(input[f]), processed_hashes[f]) \ processed_hashes[f]

C17_WriteGrows ==
    \A f \in jsonl_files :
        ckptFile'[checkpoint_files(f)] # ckptFile[checkpoint_files(f)] =>
            /\ ckptFile'[checkpoint_files(f)].exists
            /\ processed_hashes[f] \subseteq ckptFile'[checkpoint_files(f)].hashes
            /\ ckptFile[checkpoint_files(f)].hashes
                   \subseteq ckptFile'[checkpoint_files(f)].hashes

C17_CompleteOnSuccess ==
    \A f \in jsonl_files :
        pc[f] = "completed" =>
            /\ ckptFile[checkpoint_files(f)].exists
            /\ ckptFile[checkpoint_files(f)].hashes =
                   processed_hashes[f] \cup RegisteredInRun(f)

\* C17: every checkpoint write holds the hashes loaded at entry and the
\* hashes of every earlier write, and when process_single_file has returned
\* success the checkpoint file holds exactly the hashes loaded at entry and
\* the hashes registered during the run.
C17_CheckpointGrows == [][C17_WriteGrows]_vars /\ []C17_CompleteOnSuccess

\* A completed run that loaded hashes, wrote a periodic checkpoint and
\* registered further hashes.
C17_Witness ==
    \E f \in jsonl_files :
        /\ pc[f] = "completed"
        /\ processed_hashes[f] # {}
        /\ Len(input[f]) >= CheckpointEvery
        /\ RegisteredInRun(f) # {}
        /\ ckptFile[checkpoint_files(f)].hashes # processed_hashes[f]

-----------------------------------------------------------------------------
(* Claims about clean_boilerplate, checked under SpecClean. *)

\* C14: clean_boilerplate applied to its own result changes nothing, for
\* every text, one whose boilerplate phrase is split by a line break
\* included.
C14_CleanIdempotent ==
    cpc = "twice" => cleaned_twice = cleaned_once

-----------------------------------------------------------------------------
(* Claims about chunk_text of 02_chunk_jsonl.py, checked under SpecSimple. *)

\* C16: for every token sequence chunk_text finishes: its loop variable i
\* reaches len(tokens) and the generator is exhausted.
C16_ChunkTextTerminates ==
    <>(ct_pc = "done" /\ ct_i >= ct_n)

-----------------------------------------------------------------------------
(* Claims about the checkpoint file when the process is killed, checked      *)
(* under SpecKill.                                                           *)

\* The line after which the last periodic checkpoint of this run was due.
LastFlushLine(f) == line_num[f] - (line_num[f] % CheckpointEvery)

\* The hashes registered since the last periodic checkpoint was due.
RegisteredSinceFlush(f) ==
    LET start == InitialSeen(processed_hashes[f])
    IN  SeenAfter(input[f], 1, line_num[f], start)
            \ SeenAfter(input[f], 1, LastFlushLine(f), start)

C11_RecentOnly ==
    \A f \in jsonl_files :
        pc[f] = "reading" =>
            (seen_hashes[f] \ ckptFile[checkpoint_files(f)].hashes)
                \subseteq RegisteredSinceFlush(f)

C11_CheckpointKeeps ==
    \A f \in jsonl_files :
        /\ ckptFile[checkpoint_files(f)].exists => ckptFile'[checkpoint_files(f)].exists
        /\ ckptFile[checkpoint_files(f)].hashes \subseteq ckptFile'[checkpoint_files(f)].hashes

\* C11: while a file is read, the hashes in seen_hashes that the checkpoint
\* file lacks were all registered since the last periodic checkpoint, that
\* is in the last CheckpointEvery lines at most; and no step, a kill during
\* a checkpoint write included, takes a hash out of the checkpoint file.
C11_CrashLosesAtMostPeriod == []C11_RecentOnly /\ [][C11_CheckpointKeeps]_vars

-----------------------------------------------------------------------------
(* Claims about main: C13 checked under SpecPar, C8 under SpecMain. *)

\* The lines of f read so far.
LinesRead(f) == SubSeq(input[f], 1, line_num[f])

\* C13: the input files have output files and checkpoint files of their
\* own, and whatever the other workers have done, the records a worker has
\* written, its kept and skipped counts and its seen_hashes are those of one
\* pass over the lines it has read of its own file, in parallel mode as in
\* sequential mode.
C13_WorkersIndependent ==
    /\ \A f, g \in jsonl_files :
          f # g =>
              /\ out_path(f) # out_path(g)
              /\ checkpoint_files(f) # checkpoint_files(g)
              /\ out_path(f) # checkpoint_files(g)
    /\ \A f \in jsonl_files :
          pc[f] \in {"reading", "completed"} =>
              /\ LET alone == UncheckpointedPass(LinesRead(f), 1, {})
                 IN  outFile[out_path(f)] = alone /\ kept[f] = Len(alone)
              /\ skipped[f] = BadLines(LinesRead(f))
              /\ seen_hashes[f] = SeenAfter(input[f], 1, line_num[f], {})
              /\ pc[f] = "completed" =>
                     /\ line_num[f] = Len(input[f])
                     /\ ckptFile[checkpoint_files(f)] = CheckpointOf(seen_hashes[f])

\* Two workers interleaved: the second file has completed while the first,
\* started and with records written, is still being read.
C13_Witness ==
    /\ Parallel
    /\ pc[1] = "reading"
    /\ kept[1] >= 1
    /\ line_num[1] < Len(input[1])
    /\ pc[2] = "completed"
    /\ kept[2] >= 1
    /\ skipped[2] >= 1

\* C8: no exception leaves process_single_file, and main is not ended by the
\* failure of a file operation on one file.
C8_FileFailureContained ==
    /\ \A f \in jsonl_files : pc[f] # "raised"
    /\ mainPc # "crashed"

====
